---- MODULE Spec2Model ----
(***************************************************************************)
(* Model of the map-synchronisation protocol of the Vesper listings map    *)
(* (src/frontend/index.js, component MapInterface).                        *)
(*                                                                         *)
(* One sync pass is one run of the second useEffect (lines 158-561): it    *)
(* clears the tracked overlays, creates a fresh bounds / markerCount pair  *)
(* and walks both record collections, issuing one geocode request per      *)
(* record with an address.  Geocode callbacks arrive later, one at a time, *)
(* in any order, and are closures over the pass that issued them, while    *)
(* markersRef / circlesRef / mapInstanceRef are shared by all passes.      *)
(*                                                                         *)
(* JavaScript is single threaded: an event handler, a render with its      *)
(* commit, a run of the passive effects of a commit and a geocode callback *)
(* are each one atomic action.  An event that changes a property, the      *)
(* records or a piece of state only queues a render; the render commits    *)
(* (the map container is mounted or unmounted) and schedules the effects   *)
(* whose dependencies changed; the effects run in a later turn.  Geocode    *)
(* callbacks and further events can run in between.                        *)
(*                                                                         *)
(* Spec is the component mounted with all its properties configured, on    *)
(* any records; LifeSpec is the component mounted under any configuration, *)
(* on one Listing record; PopupSpec is the component with one Listing      *)
(* record of any attributes, whose popup markup it builds.                 *)
(***************************************************************************)
EXTENDS Integers, Sequences, FiniteSets, TLC

\* ---------------------------------------------------------------- bounds
MaxPasses == 3     \* sync passes over the component's lifetime
MaxRead == 2       \* records read by sync passes over the component's lifetime
NumPos == 2        \* distinct geocoded positions (one coordinate axis)
MaxChanges == 2    \* changes the base delivers (custom properties, records)
MaxMiles == 1      \* largest drive distance and drive time of a Listing

\* ------------------------------------------------------------- constants
CircleRadius == 2414016   \* 24140.16 m, in centimetres

\* ------------------------------------------------------------ cell values
NULL == "null"          \* an unset ref
SP == " "
Positions == 1..NumPos

\* JavaScript values read from a cell: null, a string (a sequence of
\* characters) or an array of strings.  THROWS stands for a cell the read of
\* which raises an exception.
JsNull == [kind |-> "null", text |-> <<>>, items |-> <<>>]
JsString(s) == [kind |-> "string", text |-> s, items |-> <<>>]
JsArray(a) == [kind |-> "array", text |-> <<>>, items |-> a]
THROWS == [kind |-> "throws", text |-> <<>>, items |-> <<>>]

\* A number cell, held as its decimal digits (what `${n}` prints).
Digits == <<"0", "1", "2", "3", "4", "5", "6", "7", "8", "9">>
JsNumber(n) == [kind |-> "number", text |-> <<Digits[n + 1]>>, items |-> <<>>]

ReqCells == {JsNull, THROWS, JsString(<<SP>>), JsString(<<"a">>)}
ListCells == {JsNull, THROWS, JsString(<<"a">>)}

\* The result slot of a record whose geocode callback has not run.
NoResult == [status |-> "none", results |-> <<>>]

\* The tables of n Requirement records and of n Listing records.
ReqRecordSets(n) == [1..n -> ReqCells]
ListRecordSets(n) == [1..n -> ListCells]

\* Results a geocode request can be answered with: (results, status).
GeocodeOutcomes ==
    {[status |-> "OK", results |-> <<p>>] : p \in Positions}
    \cup {[status |-> "OK", results |-> <<>>],
          [status |-> "ZERO_RESULTS", results |-> <<>>]}

\* ------------------------------------------------------ custom properties
\* Lines 21-49: the keys of the five required custom properties.
PropKeys ==
    {"VESPER_GOOGLE_API", "requirementsTable", "listingsTable",
     "requirementAddressField", "listingAddressField"}

\* A value of customPropertyValueByKey: NoValue when the property is unset
\* (undefined, falsy), or one of two values (two keys, two tables, two
\* fields), which the dependency lists of the effects tell apart.
NoValue == "undefined"
PropValues == {NoValue, "v1", "v2"}

\* The configurations the component can be mounted with.
PropSets == [PropKeys -> {NoValue, "v1"}]

AllSet == [k \in PropKeys |-> "v1"]

\* Lines 22, 28, 34, 40, 48 and 575-579: the label of a required property.
Label(k) ==
    CASE k = "VESPER_GOOGLE_API" -> "Google Maps API Key"
      [] k = "requirementsTable" -> "Requirements Table"
      [] k = "listingsTable" -> "Listings Table"
      [] k = "requirementAddressField" -> "Requirement Address Field"
      [] k = "listingAddressField" -> "Listing Address Field"

\* Lines 134 and 145: the messages setError is called with.
KeyError == "Google Maps API key not found. Please set VESPER_GOOGLE_API in custom properties."
LoadError == "Failed to load Google Maps API"

VARIABLES
    requirementRecords,  \* useRecords(requirementsTable): the cells of the address field
    listingRecords,      \* useRecords(listingsTable)
    mapInstanceRef,      \* mapInstanceRef.current: NULL or the constructed Map
    markersRef,          \* markersRef.current: sequence of marker handles
    circlesRef,          \* circlesRef.current: sequence of circle handles
    attached,            \* overlays whose map is set (marker.setMap / map: option)
    mapsLoaded,          \* useState(false): the maps SDK is loaded
    passCount,           \* number of sync passes started so far
    readCount,           \* number of records read by sync passes so far
    requests,            \* geocode requests in flight: <<pass, record key>>
    passes,              \* pass number -> closure variables and history of the pass
    viewport,            \* last region handed to Map.fitBounds, with the pass that did it
    props,               \* customPropertyValueByKey: required property -> its value
    error,               \* useState(null): NULL or the error message
    windowGoogle,        \* window.google.maps is present on the page
    scripts,             \* SDK script elements whose load or error event is to come
    container,           \* mapContainerRef.current: 0 (null) or 1, the root div
    attachCount,         \* times React has set mapContainerRef.current to the div
    changes,             \* changes the base has delivered so far
    mapDiv,              \* the div the Map was constructed on, 0 while there is none
    mapsMade,            \* google.maps.Map instances constructed so far
    infoWindowRef,       \* infoWindowRef.current: NULL or the constructed InfoWindow
    listing,             \* the optional cells of the Listing records (url, distance, ...)
    contentString,       \* the popup markup the last successful Listing callback built
    updates,             \* what has queued a render React has not done yet
    effects,             \* passive effects of the last commit that have not run yet
    rendered             \* what the last render saw: properties, state, records

vars == <<requirementRecords, listingRecords, mapInstanceRef, markersRef,
          circlesRef, attached, mapsLoaded, passCount, readCount, requests,
          passes, viewport, props, error, windowGoogle, scripts, container,
          attachCount, changes, mapDiv, mapsMade, infoWindowRef, listing,
          contentString, updates, effects, rendered>>

\* What only a sync pass and the geocode callbacks write.
engineVars == <<mapInstanceRef, markersRef, circlesRef, attached, passCount,
                readCount, requests, passes, viewport, mapDiv, mapsMade,
                infoWindowRef>>

\* What only a change of the base writes.
lifeVars == <<props, changes>>

\* The attributes of the Listing records and the popup built from them.
popupVars == <<listing, contentString>>

\* What only React's scheduling writes.
reactVars == <<updates, effects, rendered>>

\* ------------------------------------------------------- pure helpers
Range(s) == {s[i] : i \in 1..Len(s)}

Min(a, b) == IF a <= b THEN a ELSE b
Max(a, b) == IF a >= b THEN a ELSE b

\* String.prototype.trim on a sequence of characters.
RECURSIVE TrimLeft(_)
TrimLeft(s) == IF s # <<>> /\ Head(s) = SP THEN TrimLeft(Tail(s)) ELSE s

RECURSIVE TrimRight(_)
TrimRight(s) ==
    IF s # <<>> /\ s[Len(s)] = SP THEN TrimRight(SubSeq(s, 1, Len(s) - 1)) ELSE s

Trim(s) == TrimRight(TrimLeft(s))

\* JavaScript truthiness of a cell value or address: null, "" and 0 are
\* falsy, a non-empty string, any other number and any array are truthy.
Truthy(v) ==
    \/ (v.kind = "string" /\ v.text # <<>>)
    \/ (v.kind = "number" /\ v.text # <<"0">>)
    \/ v.kind = "array"

\* Lines 205-214: the Requirement address is the trimmed text of the cell, or
\* the first element of a non-empty array, or null.
RequirementAddress(cell) ==
    IF ~Truthy(cell) THEN JsNull
    ELSE IF cell.kind = "string" THEN JsString(Trim(cell.text))
    ELSE IF Len(cell.items) > 0 THEN JsString(cell.items[1])
    ELSE JsNull

\* Line 348: getCellValueAsString gives "" for an empty cell, the text otherwise.
ListingAddress(cell) == IF cell.kind = "null" THEN JsString(<<>>) ELSE cell

\* google.maps.LatLngBounds over one coordinate axis: empty, or the
\* smallest interval containing every position it was extended with.
EmptyBounds == [empty |-> TRUE, lo |-> 0, hi |-> 0]

\* Mutant: extend forgets what the bounds held and keeps the new position.
BoundsExtend_Last(b, pos) == [empty |-> FALSE, lo |-> pos, hi |-> pos]

BoundsExtend(b, pos) ==
    IF b.empty THEN [empty |-> FALSE, lo |-> pos, hi |-> pos]
    ELSE [empty |-> FALSE, lo |-> Min(b.lo, pos), hi |-> Max(b.hi, pos)]

BoundsIsEmpty(b) == b.empty

\* ------------------------------------------------------ record keys
ReqKey(i) == <<"req", i>>
ListKey(j) == <<"list", j>>

KeysOf(reqs, lists) ==
    {ReqKey(i) : i \in 1..Len(reqs)} \cup {ListKey(j) : j \in 1..Len(lists)}

\* ------------------------------------------------------ overlay handles
\* Lines 224-236 and 369-380: new google.maps.Marker({position, map, ...}),
\* with the text its click listener shows.
Marker(kind, p, i, pos, text) ==
    [type |-> "marker", kind |-> kind, pass |-> p, idx |-> i,
     position |-> pos, radius |-> 0, content |-> text.text]

\* Lines 304-313: new google.maps.Circle({center, radius, map, ...}).
Circle(p, i, pos) ==
    [type |-> "circle", kind |-> "req", pass |-> p, idx |-> i,
     position |-> pos, radius |-> CircleRadius, content |-> <<>>]

\* Lines 224-315: the overlays a successful Requirement geocode creates.
RequirementMarkers(p, i, pos, text) == <<Marker("req", p, i, pos, text)>>
\* Mutant: the Requirement callback draws its marker without a circle.
RequirementCircles_None(p, i, pos) == <<>>

RequirementCircles(p, i, pos) == <<Circle(p, i, pos)>>

\* Lines 369-543: the overlays a successful Listing geocode creates.
ListingMarkers(p, j, pos, text) == <<Marker("list", p, j, pos, text)>>

\* Mutant: the Listing callback draws a radius circle too.
ListingCircles_One(p, j, pos) == <<Circle(p, j, pos)>>

ListingCircles(p, j, pos) == <<>>

\* ------------------------------------------------ the pass's closure
\* Lines 186-189: fresh bounds, markerCount and totalRecords of a pass.  The
\* remaining fields record what the pass did: the records it read, the
\* requests it issued, results received, console warnings, calls of
\* checkAndFitBounds per record, calls of fitBounds, overlays constructed,
\* the container div it found mounted.
NewPass(reqs, lists) ==
    [reqs |-> reqs,
     lists |-> lists,
     totalRecords |-> Len(reqs) + Len(lists),
     markerCount |-> 0,
     bounds |-> EmptyBounds,
     issued |-> {},
     result |-> [k \in KeysOf(reqs, lists) |-> NoResult],
     ticks |-> [k \in KeysOf(reqs, lists) |-> 0],
     log |-> [k \in KeysOf(reqs, lists) |-> "none"],
     fits |-> 0,
     fitAt |-> 0,
     fitRegion |-> EmptyBounds,
     markersMade |-> 0,
     circlesMade |-> 0,
     attach |-> 0]

\* Mutant: fitBounds whenever the bounds are non-empty, whatever the count.
checkAndFitBounds_NoCountCheck(ps, k) ==
    LET count == ps.markerCount + 1
        fit == ~BoundsIsEmpty(ps.bounds)
    IN [ps EXCEPT !.markerCount = count,
                  !.ticks[k] = @ + 1,
                  !.fits = IF fit THEN @ + 1 ELSE @,
                  !.fitAt = IF fit THEN count ELSE @,
                  !.fitRegion = IF fit THEN ps.bounds ELSE @]

\* Lines 192-197, called on behalf of record k.
checkAndFitBounds(ps, k) ==
    LET count == ps.markerCount + 1
        fit == count = ps.totalRecords /\ ~BoundsIsEmpty(ps.bounds)
    IN [ps EXCEPT !.markerCount = count,
                  !.ticks[k] = @ + 1,
                  !.fits = IF fit THEN @ + 1 ELSE @,
                  !.fitAt = IF fit THEN count ELSE @,
                  !.fitRegion = IF fit THEN ps.bounds ELSE @]

\* console.warn while record k is handled.
Warn(ps, k, msg) == [ps EXCEPT !.log[k] = msg]

\* geocoder.geocode({address}, callback) for record k.
Geocode(ps, k) == [ps EXCEPT !.issued = @ \cup {k}]

\* Mutant: a Requirement without address is logged but not counted.
RequirementStep_NoAddressNoTick(ps, i) ==
    LET k == ReqKey(i)
        cell == ps.reqs[i]
    IN IF cell = THROWS
       THEN checkAndFitBounds(Warn(ps, k, "Error processing requirement record:"), k)
       ELSE IF Truthy(RequirementAddress(cell))
            THEN Geocode(ps, k)
            ELSE Warn(ps, k, "No address found for requirement record")

\* Lines 202-331: the body of requirementRecords.forEach for record i.
RequirementStep(ps, i) ==
    LET k == ReqKey(i)
        cell == ps.reqs[i]
    IN IF cell = THROWS
       THEN checkAndFitBounds(Warn(ps, k, "Error processing requirement record:"), k)
       ELSE IF Truthy(RequirementAddress(cell))
            THEN Geocode(ps, k)
            ELSE checkAndFitBounds(
                     Warn(ps, k, "No address found for requirement record"), k)

\* Mutant: the catch block of a Listing logs and does not count.
ListingStep_CatchNoTick(ps, j) ==
    LET k == ListKey(j)
        cell == ps.lists[j]
    IN IF cell = THROWS
       THEN Warn(ps, k, "Error processing listing record:")
       ELSE IF Truthy(ListingAddress(cell))
            THEN Geocode(ps, k)
            ELSE checkAndFitBounds(ps, k)

\* Lines 338-557: the body of listingRecords.forEach for record j.
ListingStep(ps, j) ==
    LET k == ListKey(j)
        cell == ps.lists[j]
    IN IF cell = THROWS
       THEN checkAndFitBounds(Warn(ps, k, "Error processing listing record:"), k)
       ELSE IF Truthy(ListingAddress(cell))
            THEN Geocode(ps, k)
            ELSE checkAndFitBounds(ps, k)

\* Lines 200-333: requirementRecords.forEach, records i..Len in order.
RECURSIVE RequirementLoop(_, _)
RequirementLoop(ps, i) ==
    IF i > Len(ps.reqs) THEN ps ELSE RequirementLoop(RequirementStep(ps, i), i + 1)

\* Lines 336-559: listingRecords.forEach.
RECURSIVE ListingLoop(_, _)
ListingLoop(ps, j) ==
    IF j > Len(ps.lists) THEN ps ELSE ListingLoop(ListingStep(ps, j), j + 1)

\* The synchronous part of one pass, lines 186-559.
RunPass(reqs, lists) == ListingLoop(RequirementLoop(NewPass(reqs, lists), 1), 1)

\* Lines 221 and 366: status === 'OK' && results[0].
IsSuccess(out) == out.status = "OK" /\ out.results # <<>>

\* Lines 222-318: the success branch of a Requirement callback, on the closure.
RequirementSuccess(ps, k, position) ==
    checkAndFitBounds([ps EXCEPT !.bounds = BoundsExtend(@, position)], k)

\* Mutant: a failed Requirement geocode is logged and not counted.
RequirementFailure_NoTick(ps, k) == Warn(ps, k, "Geocoding failed for:")

\* Lines 319-322: the failure branch of a Requirement callback.
RequirementFailure(ps, k) ==
    checkAndFitBounds(Warn(ps, k, "Geocoding failed for:"), k)

\* Lines 367-545: the success branch of a Listing callback, on the closure.
ListingSuccess(ps, k, position) ==
    checkAndFitBounds([ps EXCEPT !.bounds = BoundsExtend(@, position)], k)

\* Lines 546-549: the failure branch of a Listing callback.
ListingFailure(ps, k) ==
    checkAndFitBounds(Warn(ps, k, "Geocoding failed for:"), k)

\* Mutant: the clear step detaches the markers and forgets the circles.
Cleared_MarkersOnly(att, markers, circles) == att \ Range(markers)

\* Lines 181-184: setMap(null) on every tracked marker and circle.
Cleared(att, markers, circles) == att \ (Range(markers) \cup Range(circles))

\* Mutant: bounds and markerCount live in a ref shared by all passes, as
\* markersRef does, so every callback works on those of the latest pass.
ClosureOf_Latest(p) == passCount

\* Lines 186-188: bounds and markerCount are declared inside the effect, so
\* the callbacks of pass p close over the variables of pass p.
ClosureOf(p) == p

\* Line 195: what Map.fitBounds leaves behind when the call on behalf of pass
\* p turned ps from old to new: the region and the pass that fitted it.
Fitted(old, new, p, vp) ==
    IF new.fits > old.fits THEN [pass |-> p, region |-> new.fitRegion] ELSE vp

\* ------------------------------------------------------- listing popup
\* Lines 348-353: a text cell read with getCellValueAsString ("" for an empty
\* cell), null when its field is not mapped.
TextCells == {JsNull, JsString(<<>>), JsString(<<"x">>)}

\* Lines 350-351: a number cell read with getCellValue, null when the cell
\* is empty or its field is not mapped.
NumberCells == {JsNull} \cup {JsNumber(n) : n \in 0..MaxMiles}

\* Lines 357-361: the linked-records cell: null, no link, or a first linked
\* record with an empty or a non-empty name.
LinkCells == {JsNull, JsArray(<<>>), JsArray(<< <<>> >>), JsArray(<< <<"r">> >>)}

\* The Listing records a popup is built for: the address is non-empty, as
\* the geocode request was only issued under if (address), line 364.
Listings ==
    [address : {JsString(<<"a">>)},
     url : TextCells,
     distance : NumberCells,
     driveTime : NumberCells,
     imageUrl : TextCells,
     propertyType : TextCells,
     requirements : LinkCells]

\* The Listing record of the runs that are not about the popup: none of its
\* optional fields is mapped.
NoListing ==
    [address |-> JsString(<<"a">>), url |-> JsNull, distance |-> JsNull,
     driveTime |-> JsNull, imageUrl |-> JsNull, propertyType |-> JsNull,
     requirements |-> JsNull]

\* Lines 355-362: the name of the first linked Requirement, or "".
RequirementName(cell) ==
    IF Truthy(cell) /\ Len(cell.items) > 0 THEN JsString(cell.items[1])
    ELSE JsString(<<>>)

\* One element of the markup: what it is, the text interpolated into it and
\* the part of its style that depends on the record.
Element(tag, text, style) == [tag |-> tag, text |-> text, style |-> style]

\* `${v ? element : ''}`.
Optional(v, element) == IF Truthy(v) THEN <<element>> ELSE <<>>

\* Lines 387-535: the template contentString, as the sequence of its
\* elements (SHOW_IFRAME is false; the colours of the property-type badge
\* are left out).
ContentString(l) ==
    LET requirementName == RequirementName(l.requirements)
    IN <<Element("root", <<>>, IF Truthy(l.imageUrl) THEN "0.5rem 0 0 0" ELSE "16px")>>
       \o Optional(l.imageUrl, Element("image", l.imageUrl.text, ""))
       \o Optional(requirementName, Element("requirement", requirementName.text, ""))
       \o Optional(l.propertyType, Element("propertyType", l.propertyType.text, ""))
       \o <<Element("address", l.address.text,
                    IF Truthy(requirementName) THEN "0" ELSE "8px")>>
       \o Optional(l.distance, Element("distance", l.distance.text, ""))
       \o Optional(l.driveTime, Element("driveTime", l.driveTime.text, ""))
       \o Optional(l.url, Element("visit", l.url.text, ""))

\* ------------------------------------------------------------ rendering
\* Lines 564-567: the condition of the configuration screen.
ConfigurationRequired(pr) ==
    \/ pr.requirementsTable = NoValue
    \/ pr.listingsTable = NoValue
    \/ pr.requirementAddressField = NoValue
    \/ pr.listingAddressField = NoValue

\* Lines 575-579: the items of the list on the configuration screen.
ConfigurationList(pr) ==
    (IF pr.VESPER_GOOGLE_API = NoValue THEN {"Google Maps API Key"} ELSE {})
    \cup (IF pr.requirementsTable = NoValue THEN {"Requirements Table"} ELSE {})
    \cup (IF pr.listingsTable = NoValue THEN {"Listings Table"} ELSE {})
    \cup (IF pr.requirementAddressField = NoValue THEN {"Requirement Address Field"} ELSE {})
    \cup (IF pr.listingAddressField = NoValue THEN {"Listing Address Field"} ELSE {})

\* Mutant: the loading and map branches are tried before the error branch.
View_LoadedFirst(pr, err, loaded) ==
    IF ConfigurationRequired(pr) THEN "config"
    ELSE IF loaded THEN "map"
    ELSE IF err # NULL THEN "error"
    ELSE "loading"

\* Lines 564-607: what MapInterface returns.
View(pr, err, loaded) ==
    IF ConfigurationRequired(pr) THEN "config"
    ELSE IF err # NULL THEN "error"
    ELSE IF ~loaded THEN "loading"
    ELSE "map"

\* Line 606, ref={mapContainerRef}: the ref after the commit of a render
\* that returned view.  The root element is a <div> in every view (lines
\* 568, 591, 599, 606), so React keeps the one DOM node: the ref is that
\* node in the map view and null in every other view.
Mounted(view) == IF view = "map" THEN 1 ELSE 0

\* Lines 124-155: one run of the load effect; what it leaves of mapsLoaded,
\* error and the scripts in flight.
LoadEffect(pr, google, loaded, err, n) ==
    IF google THEN [mapsLoaded |-> TRUE, error |-> err, scripts |-> n]
    ELSE IF pr.VESPER_GOOGLE_API = NoValue
         THEN [mapsLoaded |-> loaded, error |-> KeyError, scripts |-> n]
         ELSE [mapsLoaded |-> loaded, error |-> err, scripts |-> n + 1]

\* Line 561: the dependency list of the sync effect, but for the record
\* collections (a change of which always is a change of the list).
SyncDeps(pr, loaded) == <<loaded, pr.requirementsTable, pr.listingsTable>>

\* Lines 164-178: the div the Map is bound to after the map initialisation
\* of a pass that found instance inst bound to div and cur mounted.
MapInit(inst, div, cur) == IF inst = NULL THEN cur ELSE div

\* Mutant: every pass constructs a Map.
Constructed_EveryPass(inst, made) == made + 1

\* Lines 164-165: the Maps constructed so far after the map initialisation
\* of a pass that found instance inst, made of them constructed before.
Constructed(inst, made) == IF inst = NULL THEN made + 1 ELSE made

\* ------------------------------------------------------------ actions
\* What a render sees and its effects close over (lines 105-121).
Snapshot(pr, err, loaded, reqs, lists) ==
    [props |-> pr, error |-> err, mapsLoaded |-> loaded,
     requirementRecords |-> reqs, listingRecords |-> lists]

\* The component after its first render and effects, all properties set: the
\* load effect has appended the SDK script.
Init ==
    /\ \E n \in 0..MaxRead : \E m \in 0..(MaxRead - n) :
           /\ requirementRecords \in ReqRecordSets(n)
           /\ listingRecords \in ListRecordSets(m)
    /\ mapInstanceRef = NULL
    /\ markersRef = <<>>
    /\ circlesRef = <<>>
    /\ attached = {}
    /\ mapsLoaded = FALSE
    /\ passCount = 0
    /\ readCount = 0
    /\ requests = {}
    /\ passes = <<>>
    /\ viewport = [pass |-> 0, region |-> EmptyBounds]
    /\ props = AllSet
    /\ error = NULL
    /\ windowGoogle = FALSE
    /\ scripts = 1
    /\ container = 0
    /\ attachCount = 0
    /\ changes = 0
    /\ mapDiv = 0
    /\ mapsMade = 0
    /\ infoWindowRef = NULL
    /\ listing = NoListing
    /\ contentString = <<>>
    /\ updates = {}
    /\ effects = {}
    /\ rendered = Snapshot(props, error, mapsLoaded, requirementRecords, listingRecords)

\* A pass some callback of which can still run.
Live(p) == \E r \in requests : r[1] = p

\* Lines 163-559: one run of the sync effect past its guard, on the records
\* reqs and lists of its render, with container div cur mounted.  The
\* closure of an earlier pass that has no request left in flight is
\* unreachable from here on and is dropped.
SyncPass(reqs, lists, cur) ==
    LET p == passCount + 1
        ps == [RunPass(reqs, lists) EXCEPT !.attach = attachCount]
        kept == {q \in DOMAIN passes : Live(q)}
    IN /\ passCount < MaxPasses
       /\ readCount + ps.totalRecords <= MaxRead
       /\ mapInstanceRef' = IF mapInstanceRef = NULL THEN "map" ELSE mapInstanceRef
       /\ mapDiv' = MapInit(mapInstanceRef, mapDiv, cur)
       /\ mapsMade' = Constructed(mapInstanceRef, mapsMade)
       /\ infoWindowRef' = IF mapInstanceRef = NULL THEN "infoWindow" ELSE infoWindowRef
       /\ attached' = Cleared(attached, markersRef, circlesRef)
       /\ markersRef' = <<>>
       /\ circlesRef' = <<>>
       /\ passCount' = p
       /\ readCount' = readCount + ps.totalRecords
       /\ requests' = requests \cup {<<p, k>> : k \in ps.issued}
       /\ passes' = [q \in kept \cup {p} |-> IF q = p THEN ps ELSE passes[q]]
       /\ viewport' = Fitted(NewPass(reqs, lists), ps, p, viewport)

\* Lines 158-161: one run of the sync effect of a render with mapsLoaded =
\* loaded and the properties pr, the container ref being at cur.
SyncEffect(loaded, cur, pr, reqs, lists) ==
    IF ~loaded \/ cur = 0 \/ pr.requirementsTable = NoValue
               \/ pr.listingsTable = NoValue
    THEN UNCHANGED engineVars
    ELSE SyncPass(reqs, lists, cur)

\* Line 144, script.onload: an SDK script has loaded, window.google.maps is
\* there, and the handler calls setMapsLoaded(true), which queues a render if
\* the value is new.
MapsLoaded ==
    /\ scripts > 0
    /\ scripts' = scripts - 1
    /\ windowGoogle' = TRUE
    /\ mapsLoaded' = TRUE
    /\ updates' = IF mapsLoaded THEN updates ELSE updates \cup {"state"}
    /\ UNCHANGED <<requirementRecords, listingRecords, error, container, attachCount,
                   effects, rendered, lifeVars, engineVars, popupVars>>

\* Line 145, script.onerror: an SDK script has failed to load and the handler
\* calls setError.
ScriptError ==
    /\ scripts > 0
    /\ scripts' = scripts - 1
    /\ error' = LoadError
    /\ updates' = IF error = LoadError THEN updates ELSE updates \cup {"state"}
    /\ UNCHANGED <<requirementRecords, listingRecords, windowGoogle, mapsLoaded,
                   container, attachCount, effects, rendered, lifeVars, engineVars,
                   popupVars>>

\* The user sets the custom property k to v, another value than it has, or
\* clears it; useCustomProperties (line 105) queues a render.
PropChange(k, v) ==
    /\ changes < MaxChanges
    /\ v # props[k]
    /\ changes' = changes + 1
    /\ props' = [props EXCEPT ![k] = v]
    /\ updates' = updates \cup {"props"}
    /\ UNCHANGED <<requirementRecords, listingRecords, windowGoogle, mapsLoaded,
                   error, scripts, container, attachCount, effects, rendered,
                   engineVars, popupVars>>

PropertyChange == \E k \in PropKeys, v \in PropValues : PropChange(k, v)

\* The records of a table change to reqs and lists: useRecords (lines
\* 120-121) queues a render, in which it gives new arrays, also when the
\* address cells are the same as before.
RecordsChangeTo(reqs, lists) ==
    /\ changes < MaxChanges
    /\ changes' = changes + 1
    /\ requirementRecords' = reqs
    /\ listingRecords' = lists
    /\ updates' = updates \cup {"records"}
    /\ UNCHANGED <<mapsLoaded, error, windowGoogle, scripts, container,
                   attachCount, effects, rendered, props, engineVars, popupVars>>

\* The base delivers a change of the records, of up to the records still to
\* be read.
RecordsChange ==
    \E n \in 0..(MaxRead - readCount) : \E m \in 0..(MaxRead - readCount - n) :
    \E reqs \in ReqRecordSets(n), lists \in ListRecordSets(m) :
        RecordsChangeTo(reqs, lists)

\* Lines 124, 155, 158 and 561: the passive effects a render with the
\* properties pr and mapsLoaded = loaded schedules after the render old: the
\* load effect if the API key changed, the sync effect if a value of its
\* dependency list changed (the record arrays did if useRecords queued the
\* render).
Scheduled(old, pr, loaded, queued) ==
    (IF pr.VESPER_GOOGLE_API # old.props.VESPER_GOOGLE_API THEN {"load"} ELSE {})
    \cup (IF \/ SyncDeps(pr, loaded) # SyncDeps(old.props, old.mapsLoaded)
             \/ "records" \in queued
          THEN {"sync"} ELSE {})

\* React renders MapInterface with the queued updates (lines 104-607) and
\* commits: the container ref is attached or detached (line 606) and the
\* effects whose dependencies changed are scheduled.  The effects of the
\* commit before have run by then.
Render ==
    LET cur == Mounted(View(props, error, mapsLoaded))
    IN /\ updates # {}
       /\ effects = {}
       /\ updates' = {}
       /\ container' = cur
       /\ attachCount' = IF container = 0 /\ cur # 0 THEN attachCount + 1
                         ELSE attachCount
       /\ effects' = Scheduled(rendered, props, mapsLoaded, updates)
       /\ rendered' = Snapshot(props, error, mapsLoaded, requirementRecords,
                               listingRecords)
       /\ UNCHANGED <<requirementRecords, listingRecords, mapsLoaded, error,
                      windowGoogle, scripts, lifeVars, engineVars, popupVars>>

\* React runs the passive effects of the last commit, in the order of their
\* declaration and on the values of that render: the load effect (lines
\* 124-155; the script its cleanup removes from the page can still load or
\* fail), then the sync effect (lines 158-561).
RunEffects ==
    LET le == IF "load" \in effects
              THEN LoadEffect(rendered.props, windowGoogle, mapsLoaded, error, scripts)
              ELSE [mapsLoaded |-> mapsLoaded, error |-> error, scripts |-> scripts]
    IN /\ effects # {}
       /\ effects' = {}
       /\ mapsLoaded' = le.mapsLoaded
       /\ error' = le.error
       /\ scripts' = le.scripts
       /\ updates' = IF le.mapsLoaded # mapsLoaded \/ le.error # error
                     THEN updates \cup {"state"} ELSE updates
       /\ IF "sync" \in effects
          THEN SyncEffect(rendered.mapsLoaded, container, rendered.props,
                          rendered.requirementRecords, rendered.listingRecords)
          ELSE UNCHANGED engineVars
       /\ UNCHANGED <<requirementRecords, listingRecords, windowGoogle, container,
                      attachCount, rendered, lifeVars, listing, contentString>>

\* Lines 220-323: the geocoder answers the request of Requirement record i of
\* pass p with (results, status) = out.
RequirementCallback(p, i, out) ==
    LET k == ReqKey(i)
        c == ClosureOf(p)
        ps == passes[c]
        address == RequirementAddress(passes[p].reqs[i])
    IN /\ <<p, k>> \in requests
       /\ requests' = requests \ {<<p, k>>}
       /\ IF IsSuccess(out)
          THEN LET position == out.results[1]
                   markers == RequirementMarkers(p, i, position, address)
                   circles == RequirementCircles(p, i, position)
                   new == RequirementSuccess(
                              [ps EXCEPT !.result[k] = out,
                                         !.markersMade = @ + Len(markers),
                                         !.circlesMade = @ + Len(circles)],
                              k, position)
               IN /\ attached' = attached \cup Range(markers) \cup Range(circles)
                  /\ markersRef' = markersRef \o markers
                  /\ circlesRef' = circlesRef \o circles
                  /\ passes' = [passes EXCEPT ![c] = new]
                  /\ viewport' = Fitted(ps, new, c, viewport)
          ELSE LET new == RequirementFailure([ps EXCEPT !.result[k] = out], k)
               IN /\ passes' = [passes EXCEPT ![c] = new]
                  /\ viewport' = Fitted(ps, new, c, viewport)
                  /\ UNCHANGED <<attached, markersRef, circlesRef>>
       /\ UNCHANGED <<requirementRecords, listingRecords, mapInstanceRef,
                      mapsLoaded, passCount, readCount, props, error,
                      windowGoogle, scripts, container, attachCount, changes,
                      mapDiv, mapsMade, infoWindowRef, popupVars, reactVars>>

\* Lines 365-550: the geocoder answers the request of Listing record j of
\* pass p with (results, status) = out.  The success branch builds the
\* markup of the record's popup (lines 386-535) for the marker's click
\* listener.
ListingCallback(p, j, out) ==
    LET k == ListKey(j)
        c == ClosureOf(p)
        ps == passes[c]
        address == ListingAddress(passes[p].lists[j])
    IN /\ <<p, k>> \in requests
       /\ requests' = requests \ {<<p, k>>}
       /\ IF IsSuccess(out)
          THEN LET position == out.results[1]
                   markers == ListingMarkers(p, j, position, address)
                   circles == ListingCircles(p, j, position)
                   new == ListingSuccess(
                              [ps EXCEPT !.result[k] = out,
                                         !.markersMade = @ + Len(markers),
                                         !.circlesMade = @ + Len(circles)],
                              k, position)
               IN /\ attached' = attached \cup Range(markers) \cup Range(circles)
                  /\ markersRef' = markersRef \o markers
                  /\ circlesRef' = circlesRef \o circles
                  /\ passes' = [passes EXCEPT ![c] = new]
                  /\ viewport' = Fitted(ps, new, c, viewport)
                  /\ contentString' = ContentString([listing EXCEPT !.address = address])
          ELSE LET new == ListingFailure([ps EXCEPT !.result[k] = out], k)
               IN /\ passes' = [passes EXCEPT ![c] = new]
                  /\ viewport' = Fitted(ps, new, c, viewport)
                  /\ UNCHANGED <<attached, markersRef, circlesRef, contentString>>
       /\ UNCHANGED <<requirementRecords, listingRecords, mapInstanceRef,
                      mapsLoaded, passCount, readCount, props, error,
                      windowGoogle, scripts, container, attachCount, changes,
                      mapDiv, mapsMade, infoWindowRef, listing, reactVars>>

GeocodeRequirement ==
    \E r \in requests : \E out \in GeocodeOutcomes :
        r[2][1] = "req" /\ RequirementCallback(r[1], r[2][2], out)

GeocodeListing ==
    \E r \in requests : \E out \in GeocodeOutcomes :
        r[2][1] = "list" /\ ListingCallback(r[1], r[2][2], out)

Next ==
    \/ MapsLoaded
    \/ ScriptError
    \/ PropertyChange
    \/ RecordsChange
    \/ Render
    \/ RunEffects
    \/ GeocodeRequirement
    \/ GeocodeListing

Spec == Init /\ [][Next]_vars

\* ------------------------------------------- the component's lifecycle
\* The record collections of the lifecycle runs: no Requirement and one
\* Listing with an address.
LifeRecords == {<< <<>>, <<JsString(<<"a">>)>> >>}

\* The component after its first render and effects on a page without the
\* SDK, under any configuration: the load effect has set the error (and the
\* component rendered it) or appended the script, the sync effect has
\* returned at line 159.
LifeInit ==
    /\ \E r \in LifeRecords : requirementRecords = r[1] /\ listingRecords = r[2]
    /\ mapInstanceRef = NULL
    /\ markersRef = <<>>
    /\ circlesRef = <<>>
    /\ attached = {}
    /\ mapsLoaded = FALSE
    /\ passCount = 0
    /\ readCount = 0
    /\ requests = {}
    /\ passes = <<>>
    /\ viewport = [pass |-> 0, region |-> EmptyBounds]
    /\ props \in PropSets
    /\ error = LoadEffect(props, FALSE, FALSE, NULL, 0).error
    /\ windowGoogle = FALSE
    /\ scripts = LoadEffect(props, FALSE, FALSE, NULL, 0).scripts
    /\ container = 0
    /\ attachCount = 0
    /\ changes = 0
    /\ mapDiv = 0
    /\ mapsMade = 0
    /\ infoWindowRef = NULL
    /\ listing = NoListing
    /\ contentString = <<>>
    /\ updates = {}
    /\ effects = {}
    /\ rendered = Snapshot(props, error, mapsLoaded, requirementRecords, listingRecords)

RecordsRefresh == \E r \in LifeRecords : RecordsChangeTo(r[1], r[2])

LifeNext ==
    \/ MapsLoaded
    \/ ScriptError
    \/ PropertyChange
    \/ RecordsRefresh
    \/ Render
    \/ RunEffects
    \/ GeocodeListing

LifeSpec == LifeInit /\ [][LifeNext]_vars

\* ------------------------------------------------- the popup template
\* The component with one Listing record, its optional cells holding any
\* values, all properties set, after its first render and effects.
PopupInit ==
    /\ requirementRecords = <<>>
    /\ listingRecords = <<JsString(<<"a">>)>>
    /\ mapInstanceRef = NULL
    /\ markersRef = <<>>
    /\ circlesRef = <<>>
    /\ attached = {}
    /\ mapsLoaded = FALSE
    /\ passCount = 0
    /\ readCount = 0
    /\ requests = {}
    /\ passes = <<>>
    /\ viewport = [pass |-> 0, region |-> EmptyBounds]
    /\ props = AllSet
    /\ error = NULL
    /\ windowGoogle = FALSE
    /\ scripts = 1
    /\ container = 0
    /\ attachCount = 0
    /\ changes = 0
    /\ mapDiv = 0
    /\ mapsMade = 0
    /\ infoWindowRef = NULL
    /\ listing \in Listings
    /\ contentString = <<>>
    /\ updates = {}
    /\ effects = {}
    /\ rendered = Snapshot(props, error, mapsLoaded, requirementRecords, listingRecords)

\* The SDK loads, the pass geocodes the Listing, and the callback builds the
\* popup.
PopupNext == MapsLoaded \/ Render \/ RunEffects \/ GeocodeListing

PopupSpec == PopupInit /\ [][PopupNext]_vars

\* --------------------------------------------------------- fairness
\* The component mounted on a base whose two tables are empty; the records
\* arrive as changes of the base.
FairInit == Init /\ requirementRecords = <<>> /\ listingRecords = <<>>

\* The geocoder answers every request it accepted.  While a request is in
\* flight some callback is therefore called sooner or later; as callbacks
\* only remove requests and passes add finitely many, each one is answered.
FairSpec ==
    FairInit /\ [][Next]_vars /\ WF_vars(GeocodeRequirement) /\ WF_vars(GeocodeListing)

\* ------------------------------------------------- derived quantities
\* Records of pass ps whose geocode callback took the success branch.
SuccessKeys(ps) ==
    {k \in DOMAIN ps.result : ps.result[k] # NoResult /\ IsSuccess(ps.result[k])}

\* Records of pass ps whose geocode callback took the failure branch.
FailureKeys(ps) ==
    {k \in DOMAIN ps.result : ps.result[k] # NoResult /\ ~IsSuccess(ps.result[k])}

Successes(ps) == Cardinality(SuccessKeys(ps))

\* No request of any pass is in flight.
AllSettled == requests = {}

\* ------------------------------------------------------------ claims

\* C1: in every pass fitBounds is called at most once, only by the call of
\* checkAndFitBounds that brings markerCount to totalRecords, and never in a
\* pass none of whose geocodes succeeded.
C1_FitBoundsOncePerPass ==
    \A p \in DOMAIN passes :
        LET ps == passes[p]
        IN /\ ps.fits <= 1
           /\ ps.markerCount < ps.totalRecords => ps.fits = 0
           /\ ps.fits = 1 => /\ ps.fitAt = ps.totalRecords
                             /\ ps.markerCount = ps.totalRecords
                             /\ Successes(ps) >= 1

\* A pass of two records, both geocoded successfully, the Listing answered
\* before the Requirement, has fitted once.
C1_Witness ==
    \E p \in DOMAIN passes :
        /\ passes[p].fits = 1
        /\ Successes(passes[p]) = 2
        /\ Len(markersRef) = 2
        /\ markersRef[1].kind = "list" /\ markersRef[1].pass = p
        /\ markersRef[2].kind = "req" /\ markersRef[2].pass = p

\* C2: when every request is answered, every pass reaches markerCount =
\* totalRecords, and has then called fitBounds if one of its geocodes
\* succeeded, also when a newer pass started in between.
C2_EveryPassCompletes ==
    \A p \in 1..MaxPasses :
        (p \in DOMAIN passes)
            ~> (/\ p \in DOMAIN passes
                /\ passes[p].markerCount = passes[p].totalRecords
                /\ Successes(passes[p]) >= 1 => passes[p].fits >= 1)

\* An earlier pass completed and fitted after a newer pass had started: its
\* marker is in the list the newer pass emptied.
C2_Witness ==
    \E p \in DOMAIN passes :
        /\ p < passCount
        /\ passes[p].totalRecords >= 1
        /\ passes[p].markerCount = passes[p].totalRecords
        /\ passes[p].fits = 1
        /\ \E m \in Range(markersRef) : m.pass = p

\* C3: totalRecords is the number of Requirement plus Listing records of the
\* render whose effect the pass is, each record has called checkAndFitBounds
\* exactly once unless its request is still in flight (then not yet), and
\* markerCount never exceeds totalRecords.
C3_OneTickPerRecord ==
    /\ [](\A p \in DOMAIN passes :
              LET ps == passes[p]
              IN /\ ps.totalRecords = Len(ps.reqs) + Len(ps.lists)
                 /\ \A k \in DOMAIN ps.ticks :
                        ps.ticks[k] = IF <<p, k>> \in requests THEN 0 ELSE 1
                 /\ ps.markerCount =
                        Cardinality({k \in DOMAIN ps.ticks : ps.ticks[k] >= 1})
                 /\ ps.markerCount <= ps.totalRecords)
    /\ [][passCount' # passCount =>
              /\ passes'[passCount'].reqs = rendered.requirementRecords
              /\ passes'[passCount'].lists = rendered.listingRecords
              /\ passes'[passCount'].totalRecords =
                     Len(rendered.requirementRecords) + Len(rendered.listingRecords)]_vars

\* A pass whose Requirement record threw while being read and whose Listing
\* geocode failed has counted both records.
C3_Witness ==
    \E p \in DOMAIN passes :
        /\ Len(passes[p].reqs) = 1 /\ passes[p].reqs[1] = THROWS
        /\ FailureKeys(passes[p]) = {ListKey(1)}
        /\ passes[p].markerCount = 2

\* Records of pass ps for which the pass read an address and found it empty.
EmptyAddressKeys(ps) ==
    {ReqKey(i) : i \in {n \in 1..Len(ps.reqs) :
                          ps.reqs[n] # THROWS /\ ~Truthy(RequirementAddress(ps.reqs[n]))}}
    \cup {ListKey(j) : j \in {n \in 1..Len(ps.lists) :
                                ps.lists[n] # THROWS /\ ~Truthy(ListingAddress(ps.lists[n]))}}

\* Records of pass ps whose address cell holds a non-empty text.
NonEmptyAddressKeys(ps) ==
    {ReqKey(i) : i \in {n \in 1..Len(ps.reqs) : Truthy(ps.reqs[n])}}
    \cup {ListKey(j) : j \in {n \in 1..Len(ps.lists) : Truthy(ps.lists[n])}}

\* The overlays the successful geocodes of pass p are to show.
ExpectedOverlays(p) ==
    LET ps == passes[p]
    IN UNION {IF k[1] = "req"
              THEN {Marker("req", p, k[2], ps.result[k].results[1],
                           RequirementAddress(ps.reqs[k[2]])),
                    Circle(p, k[2], ps.result[k].results[1])}
              ELSE {Marker("list", p, k[2], ps.result[k].results[1],
                           ListingAddress(ps.lists[k[2]]))} : k \in SuccessKeys(ps)}

\* An overlay without the identity of its handle: kind, record, position,
\* radius and popup text.
ContentOf(o) == [o EXCEPT !.pass = 0]

Tracked == Range(markersRef) \cup Range(circlesRef)

\* The overlays of record k of pass p among a set of overlays.
OverlaysOf(set, p, k) == {o \in set : o.pass = p /\ o.kind = k[1] /\ o.idx = k[2]}

\* C4 as stated: the markers and circles a pass created are together at most
\* the records with a non-empty address, and exactly as many as the
\* successful geocode callbacks.
C4_Original ==
    \A p \in DOMAIN passes :
        LET ps == passes[p]
        IN /\ ps.markersMade + ps.circlesMade <= Cardinality(NonEmptyAddressKeys(ps))
           /\ ps.markersMade + ps.circlesMade = Successes(ps)

\* C4 amended: the markers a pass created are exactly as many as its
\* successful geocode callbacks and at most the records with a non-empty
\* address (each of which was geocoded at most once); the circles are exactly
\* as many as the successful Requirement callbacks.
C4_MarkersPerSuccess ==
    \A p \in DOMAIN passes :
        LET ps == passes[p]
        IN /\ ps.markersMade = Successes(ps)
           /\ SuccessKeys(ps) \subseteq ps.issued
           /\ ps.issued \subseteq NonEmptyAddressKeys(ps)
           /\ ps.markersMade <= Cardinality(NonEmptyAddressKeys(ps))
           /\ ps.circlesMade = Cardinality({k \in SuccessKeys(ps) : k[1] = "req"})

\* A pass geocoded a Requirement and a Listing: two markers, one circle.
C4_Witness ==
    \E p \in DOMAIN passes :
        /\ SuccessKeys(passes[p]) = {ReqKey(1), ListKey(1)}
        /\ passes[p].markersMade = 2
        /\ passes[p].circlesMade = 1

\* C5 as stated: once no request is in flight, the overlays attached to the
\* map are exactly those of the successful geocodes of the latest pass.
C5_Original ==
    (passCount >= 1 /\ AllSettled) => attached = ExpectedOverlays(passCount)

\* C6 as stated: a pass re-run on the same records with the same geocode
\* results leaves, once both are settled, the overlays of the first pass
\* alone, each once.
C6_Original ==
    \A p \in DOMAIN passes, q \in DOMAIN passes :
        (/\ q = p + 1 /\ q = passCount /\ AllSettled
         /\ passes[p].reqs = passes[q].reqs
         /\ passes[p].lists = passes[q].lists
         /\ passes[p].result = passes[q].result)
        => /\ {ContentOf(o) : o \in attached} = {ContentOf(o) : o \in ExpectedOverlays(p)}
           /\ Cardinality(attached) = Cardinality(ExpectedOverlays(p))

\* C7: every overlay attached to the map is in markersRef or circlesRef, and
\* right after a pass started (its clear step and record loop done) no
\* overlay is attached, whatever stale callbacks added before.
C7_AttachedAreTracked ==
    /\ [](attached \subseteq Tracked)
    /\ [][passCount' # passCount => attached' = {}]_vars

\* The marker of a stale callback of pass 1 is attached and tracked while
\* pass 2 is the latest and a further pass can still start.
C7_Witness ==
    /\ passCount = 2
    /\ passCount < MaxPasses
    /\ \E m \in attached : m.pass = 1 /\ m \in Range(markersRef)

\* C8: the callback of a request of pass P adds one to P's markerCount,
\* extends P's bounds by the geocoded position if there is one, and leaves
\* the closure of every other pass as it was.
C8_CallbackTouchesOwnPass ==
    [][\A r \in requests \ requests' :
           LET p == r[1]
               k == r[2]
               out == passes'[p].result[k]
           IN /\ passes'[p].markerCount = passes[p].markerCount + 1
              /\ passes'[p].bounds =
                     IF IsSuccess(out) THEN BoundsExtend(passes[p].bounds, out.results[1])
                     ELSE passes[p].bounds
              /\ \A q \in DOMAIN passes \ {p} :
                     q \in DOMAIN passes' /\ passes'[q] = passes[q]]_vars

\* A callback of pass p ran after the newer pass q started, and q, with a
\* request still in flight, has counted nothing.
C8_Witness ==
    \E p \in DOMAIN passes, q \in DOMAIN passes :
        /\ p < q
        /\ \E m \in Range(markersRef) : m.pass = p
        /\ passes[p].markerCount >= 1
        /\ passes[q].markerCount = 0
        /\ \E r \in requests : r[1] = q

\* C9: a callback with a non-OK status, or with OK and no result, creates no
\* overlay, adds one to the pass's markerCount, logs the failure and leaves
\* the other requests in flight; no overlay on the map belongs to a record
\* whose geocode failed.
C9_FailureOnlyCounts ==
    /\ [][\A r \in requests \ requests' :
              LET p == r[1]
                  k == r[2]
              IN ~IsSuccess(passes'[p].result[k]) =>
                     /\ attached' = attached
                     /\ markersRef' = markersRef
                     /\ circlesRef' = circlesRef
                     /\ passes'[p].markerCount = passes[p].markerCount + 1
                     /\ passes'[p].log[k] = "Geocoding failed for:"
                     /\ requests' = requests \ {r}]_vars
    /\ [](\A p \in DOMAIN passes : \A k \in FailureKeys(passes[p]) :
              OverlaysOf(attached \cup Tracked, p, k) = {})

\* The Requirement geocode of a pass came back OK without a result, the
\* Listing of the same pass was geocoded, shown and the map fitted.
C9_Witness ==
    \E p \in DOMAIN passes :
        /\ FailureKeys(passes[p]) = {ReqKey(1)}
        /\ passes[p].result[ReqKey(1)].status = "OK"
        /\ SuccessKeys(passes[p]) = {ListKey(1)}
        /\ passes[p].fits = 1
        /\ OverlaysOf(attached, p, ListKey(1)) # {}

\* C10 as stated: a record with an empty address is never geocoded, has no
\* overlay, is counted during the record loop of its pass, and is logged as
\* a missing address, not as a geocode failure.
C10_Original ==
    \A p \in DOMAIN passes :
        \A k \in EmptyAddressKeys(passes[p]) :
            /\ k \notin passes[p].issued
            /\ OverlaysOf(attached \cup Tracked, p, k) = {}
            /\ passes[p].ticks[k] = 1
            /\ passes[p].log[k] \notin {"none", "Geocoding failed for:"}

\* Indices of the Requirement markers in a list of marker handles.
RequirementMarkerIndices(markers) ==
    {n \in 1..Len(markers) : markers[n].kind = "req"}

\* C15: a successful Requirement callback appends exactly one marker and
\* exactly one circle, the circle centred on the marker's position with
\* radius 24140.16 m; a successful Listing callback appends exactly one marker
\* and no circle; a failed one appends nothing.  Hence the tracked circles
\* are always as many as the tracked Requirement markers, each circle on the
\* position of the Requirement marker of its record, stale callbacks included.
C15_CirclePerRequirementMarker ==
    /\ [][\A r \in requests \ requests' :
              LET p == r[1]
                  k == r[2]
                  out == passes'[p].result[k]
              IN IF ~IsSuccess(out)
                 THEN markersRef' = markersRef /\ circlesRef' = circlesRef
                 ELSE /\ Len(markersRef') = Len(markersRef) + 1
                      /\ SubSeq(markersRef', 1, Len(markersRef)) = markersRef
                      /\ LET m == markersRef'[Len(markersRef')]
                         IN /\ m.type = "marker"
                            /\ m.kind = k[1]
                            /\ m.position = out.results[1]
                            /\ IF k[1] = "req"
                               THEN /\ Len(circlesRef') = Len(circlesRef) + 1
                                    /\ SubSeq(circlesRef', 1, Len(circlesRef)) = circlesRef
                                    /\ LET c == circlesRef'[Len(circlesRef')]
                                       IN /\ c.type = "circle"
                                          /\ c.position = m.position
                                          /\ c.radius = CircleRadius
                               ELSE circlesRef' = circlesRef]_vars
    /\ [](/\ Len(circlesRef) = Cardinality(RequirementMarkerIndices(markersRef))
          /\ \A n \in 1..Len(circlesRef) :
                 /\ circlesRef[n].radius = CircleRadius
                 /\ \E m \in Range(markersRef) :
                        /\ m.kind = "req"
                        /\ m.pass = circlesRef[n].pass
                        /\ m.idx = circlesRef[n].idx
                        /\ m.position = circlesRef[n].position)

\* The Requirement callback of a stale pass and the Listing callback of the
\* latest pass both succeeded: two markers and one circle are tracked.
C15_Witness ==
    /\ Len(markersRef) = 2
    /\ Len(circlesRef) = 1
    /\ \E m \in Range(markersRef) : m.kind = "req" /\ m.pass < passCount
    /\ \E m \in Range(markersRef) : m.kind = "list" /\ m.pass = passCount
    /\ circlesRef[1].pass < passCount

\* The positions of the successful geocodes of pass ps.
SuccessPositions(ps) == {ps.result[k].results[1] : k \in SuccessKeys(ps)}

\* The smallest region holding every position of a set; empty for the empty set.
RegionOf(S) ==
    IF S = {} THEN EmptyBounds
    ELSE [empty |-> FALSE,
          lo |-> CHOOSE x \in S : \A y \in S : x <= y,
          hi |-> CHOOSE x \in S : \A y \in S : x >= y]

\* Position pos lies in region b.
BoundsContains(b, pos) == ~b.empty /\ b.lo <= pos /\ pos <= b.hi

\* C16: the region a pass hands to fitBounds is the smallest region holding
\* the positions of all successful geocodes of that pass, whatever the order
\* of the callbacks: it contains each of them, and a position it contains
\* that the pass did not geocode (another pass's, say) lies between two the
\* pass did geocode; the viewport takes that region at the call.
C16_FitRegionIsOwnSuccesses ==
    /\ [](\A p \in DOMAIN passes :
              passes[p].fits >= 1 =>
                  /\ passes[p].fitRegion = RegionOf(SuccessPositions(passes[p]))
                  /\ passes[p].fitRegion = passes[p].bounds
                  /\ \A pos \in SuccessPositions(passes[p]) :
                         BoundsContains(passes[p].fitRegion, pos)
                  /\ \A pos \in Positions \ SuccessPositions(passes[p]) :
                         BoundsContains(passes[p].fitRegion, pos) =>
                             \E a, b \in SuccessPositions(passes[p]) : a < pos /\ pos < b)
    /\ [][\A p \in DOMAIN passes \cap DOMAIN passes' :
              passes'[p].fits > passes[p].fits =>
                  viewport' = [pass |-> p,
                               region |-> RegionOf(SuccessPositions(passes'[p]))]]_vars

\* A pass geocoded its Listing at position 2 first and its Requirement at
\* position 1 after it, and fitted the region from 1 to 2.
C16_Witness ==
    \E p \in DOMAIN passes :
        /\ passes[p].fits = 1
        /\ Len(markersRef) = 2
        /\ markersRef[1].kind = "list" /\ markersRef[1].position = 2
        /\ markersRef[2].kind = "req" /\ markersRef[2].position = 1
        /\ markersRef[1].pass = p /\ markersRef[2].pass = p
        /\ viewport = [pass |-> p, region |-> [empty |-> FALSE, lo |-> 1, hi |-> 2]]

\* C17 as stated: once no request is in flight and a marker is attached to
\* the map, the region last handed to fitBounds is the one of the latest pass
\* and contains the position of every attached marker.
C17_Original ==
    (AllSettled /\ \E m \in attached : m.type = "marker")
        => /\ viewport.pass = passCount
           /\ \A m \in attached :
                  m.type = "marker" => BoundsContains(viewport.region, m.position)

\* The required properties that are unset.
Unset(pr) == {k \in PropKeys : pr[k] = NoValue}

\* No update is queued and no effect is pending: the component has rendered
\* its current inputs and the effects of that render have run.
Quiescent == updates = {} /\ effects = {}

\* C11 as stated: once every required property is set, the SDK is loaded and
\* no error is set, whichever of them became ready last, a sync pass has run
\* by the time the component has rendered that and run its effects.
C11_Original ==
    (/\ Quiescent
     /\ Unset(props) = {}
     /\ mapsLoaded
     /\ error = NULL) => passCount >= 1

\* C12 as stated: while one of the five required properties is unset, in
\* the render whose effects run and in the base alike, no step starts a
\* pass: none clears the tracked overlays, issues a geocode request or
\* constructs the Map.
C12_Original ==
    [][(Unset(rendered.props) # {} /\ Unset(props') # {}) =>
           /\ passCount' = passCount
           /\ requests' \subseteq requests
           /\ mapInstanceRef' = mapInstanceRef
           /\ Len(markersRef') >= Len(markersRef)
           /\ Len(circlesRef') >= Len(circlesRef)]_vars

\* C13 as stated: a render with one of the five required properties unset
\* returns the configuration screen, and the list on the screen holds exactly
\* the labels of the unset properties.
C13_Original ==
    Unset(rendered.props) # {} =>
        /\ View(rendered.props, rendered.error, rendered.mapsLoaded) = "config"
        /\ ConfigurationList(rendered.props) = {Label(k) : k \in Unset(rendered.props)}

\* C14 as stated: once the component has rendered the missing API key and
\* run its effects, the error is set and, with the rest of the configuration
\* complete, rendered; and while the key is missing, in the render whose
\* effects run and in the base alike, no step starts a pass, whether or not
\* window.google.maps is there.
C14_Original ==
    /\ []((Quiescent /\ props.VESPER_GOOGLE_API = NoValue) =>
              /\ rendered.error # NULL
              /\ ~ConfigurationRequired(rendered.props) =>
                     View(rendered.props, rendered.error, rendered.mapsLoaded) = "error")
    /\ [][(/\ rendered.props.VESPER_GOOGLE_API = NoValue
           /\ props'.VESPER_GOOGLE_API = NoValue) =>
              passCount' = passCount]_vars

\* C19: no step resets the error once it is set, by the missing key or by a
\* script that failed, nor the error a render has seen; every render that
\* sees it leaves no map container mounted and, with the tables and address
\* fields configured, returns the error message, which is what the component
\* shows once it has rendered its inputs, also after the key was supplied
\* and the SDK loaded.
C19_FailureStateIsSticky ==
    /\ [][/\ error # NULL => error' # NULL
          /\ rendered.error # NULL => rendered'.error # NULL]_vars
    /\ [](error \in {NULL, KeyError, LoadError})
    /\ [](rendered.error # NULL => container = 0)
    /\ []((rendered.error # NULL /\ ~ConfigurationRequired(rendered.props)) =>
              View(rendered.props, rendered.error, rendered.mapsLoaded) = "error")
    /\ []((Quiescent /\ error # NULL) =>
              /\ rendered.error = error
              /\ rendered.props = props)

\* The error was set for the missing key; the key was supplied since and the
\* SDK script loaded, with the configuration complete.
C19_Witness ==
    /\ Quiescent
    /\ error = KeyError
    /\ rendered.error = KeyError
    /\ Unset(props) = {}
    /\ rendered.mapsLoaded
    /\ windowGoogle
    /\ changes >= 1

\* C20: the Map and the InfoWindow are constructed together, in the step of
\* the first pass, which is the sync effect of a render with the SDK loaded
\* and both tables set, run with a container mounted, on that container; once
\* constructed, no pass constructs another, neither ref nor the div of the
\* Map changes again, and a container that is mounted is the div of the Map.
C20_MapConstructedOnce ==
    /\ [](/\ (mapInstanceRef = NULL) <=> (passCount = 0)
          /\ (mapInstanceRef = NULL) <=> (infoWindowRef = NULL)
          /\ (mapInstanceRef = NULL) <=> (mapDiv = 0)
          /\ (mapInstanceRef = NULL) <=> (mapsMade = 0)
          /\ mapsMade <= 1
          /\ container # 0 => mapDiv \in {0, container})
    /\ [][/\ mapInstanceRef # NULL =>
                 /\ mapInstanceRef' = mapInstanceRef
                 /\ infoWindowRef' = infoWindowRef
                 /\ mapDiv' = mapDiv
          /\ (mapInstanceRef = NULL /\ mapInstanceRef' # NULL) =>
                 /\ passCount' = 1
                 /\ rendered.mapsLoaded /\ mapsLoaded
                 /\ rendered.props.requirementsTable # NoValue
                 /\ rendered.props.listingsTable # NoValue
                 /\ mapsMade' = 1
                 /\ container # 0
                 /\ mapDiv' = container
                 /\ infoWindowRef' # NULL
          /\ passCount' # passCount => mapInstanceRef' # NULL]_vars

\* The container ref was detached and attached again after the Map was
\* constructed; a pass ran after that and its marker is on the one Map, which
\* is bound to the div the ref holds.
C20_Witness ==
    \E p \in DOMAIN passes :
        /\ mapsMade = 1
        /\ attachCount = 2
        /\ container = mapDiv
        /\ passes[p].attach = 2
        /\ \E m \in attached : m.pass = p

\* The markup has an element of the kind tag.
Has(markup, tag) == \E n \in 1..Len(markup) : markup[n].tag = tag

\* The attribute has a value: a non-empty text or a number, 0 included.
HasValue(v) == (v.kind = "string" /\ v.text # <<>>) \/ v.kind = "number"

\* C18 as stated: the popup markup is determined by the attributes of the
\* record; it has the address line, and the distance line, the drive-time
\* line, the visit link, the image, the requirement badge and the
\* property-type badge each exactly when the attribute has a value, a
\* distance or drive time of 0 counting as a value.
C18_Original ==
    contentString # <<>> =>
        /\ contentString = ContentString(listing)
        /\ Has(contentString, "address")
        /\ Has(contentString, "distance") <=> HasValue(listing.distance)
        /\ Has(contentString, "driveTime") <=> HasValue(listing.driveTime)
        /\ Has(contentString, "visit") <=> HasValue(listing.url)
        /\ Has(contentString, "image") <=> HasValue(listing.imageUrl)
        /\ Has(contentString, "requirement")
               <=> HasValue(RequirementName(listing.requirements))
        /\ Has(contentString, "propertyType") <=> HasValue(listing.propertyType)

====
